---------------------------- MODULE Spec2Model ----------------------------
(***************************************************************************)
(* Model of presto-yarn's configure.py: set_configuration(component) and   *)
(* its helpers _store_configuration, _directory and _template_config,      *)
(* acting on a file system of directories and files.                       *)
(*                                                                         *)
(* A string is the sequence of its characters.  The code names files by    *)
(* path strings ("presto/etc/jvm.config"), which the kernel resolves from  *)
(* the working directory.  The file system maps resolved paths (sequences  *)
(* of names, <<>> being the working directory) to what is there: a         *)
(* directory with its owner/group, or a file with its content (a sequence  *)
(* of characters, or of opaque chunks for content that is never built      *)
(* here) and its owner/group.  There are no symbolic links.  The           *)
(* serialized literals of params (jvm_args, catalog_properties,            *)
(* addon_plugins) are sequences of lexical tokens, white space included,   *)
(* decoded by literal_eval.                                                *)
(*                                                                         *)
(* Where the model does not cover an input (see the CASE expressions       *)
(* without OTHER), the operator has no value for it.                       *)
(***************************************************************************)
EXTENDS Naturals, Integers, Sequences, FiniteSets, TLC

VARIABLES dirs,    \* existing directories: path -> [owner, group]
          files,   \* existing files: path -> [content, owner, group]
          pc,      \* the statement of set_configuration to run next, or
                   \* the one that raised
          params,  \* the parameter set of the current invocation
          todo,    \* the entries the dictionary loop has still to visit:
                   \* <<key, value, key, value, ...>>
          err,     \* the exception that ended the invocation ("" if none)
          log,     \* file-system effects of the current invocation, in order
          pre,     \* the file system when the current invocation started
          origin,  \* the file system before the first invocation
          hist,    \* parameter sets of the invocations started so far
          oks      \* number of invocations that returned normally

vars == <<dirs, files, pc, params, todo, err, log, pre, origin, hist, oks>>

\* Number of invocations of set_configuration in one behaviour.
MaxInvocations == 3

(***************************************************************************)
(* Identities and path strings supplied by params.                         *)
(***************************************************************************)
Configured == [owner |-> "presto", group |-> "hadoop"]
ProcessUser == [owner |-> "yarn", group |-> "yarn"]
Foreign == [owner |-> "root", group |-> "root"]

conf_dir == <<"p", "r", "e", "s", "t", "o", "/", "e", "t", "c">>
catalog_dir == <<"p", "r", "e", "s", "t", "o", "/", "e", "t", "c", "/", "c", "a", "t", "a", "l", "o", "g">>
pid_dir == <<"v", "a", "r", "/", "r", "u", "n">>
log_dir == <<"v", "a", "r", "/", "l", "o", "g">>
presto_plugin_dir == <<"p", "r", "e", "s", "t", "o", "/", "p", "l", "u", "g", "i", "n">>
source_plugin_dir == <<"a", "d", "d", "o", "n">>

\* component=None: not a string, so no sequence of characters
None == <<"None">>

(***************************************************************************)
(* Sequences.                                                              *)
(***************************************************************************)
RECURSIVE Concat(_)
Concat(seqs) == IF seqs = <<>> THEN <<>> ELSE Head(seqs) \o Concat(Tail(seqs))

RECURSIVE Separated(_, _)
Separated(seqs, sep) ==
    IF Len(seqs) <= 1 THEN Concat(seqs)
    ELSE Head(seqs) \o sep \o Separated(Tail(seqs), sep)

Front(s) == SubSeq(s, 1, Len(s) - 1)

Put(f, k, v) == [x \in DOMAIN f \cup {k} |-> IF x = k THEN v ELSE f[x]]

(***************************************************************************)
(* Path strings (posixpath).                                               *)
(***************************************************************************)
\* format("{dir}/{name}"): string concatenation
Under(d, name) == d \o <<"/">> \o name

\* os.path.join(a, b): an absolute b replaces a
join(a, b) ==
    IF b # <<>> /\ b[1] = "/" THEN b
    ELSE IF a = <<>> \/ a[Len(a)] = "/" THEN a \o b
    ELSE a \o <<"/">> \o b

\* p.rfind("/") + 1
LastSlash(p) ==
    IF \E i \in 1..Len(p) : p[i] = "/"
    THEN CHOOSE i \in 1..Len(p) :
            p[i] = "/" /\ \A j \in (i + 1)..Len(p) : p[j] # "/"
    ELSE 0

\* s.rstrip("/")
RECURSIVE rstrip(_)
rstrip(s) ==
    IF s # <<>> /\ s[Len(s)] = "/" THEN rstrip(Front(s)) ELSE s

\* os.path.split(p): head loses its trailing slashes unless it is all slashes
split(p) ==
    LET i == LastSlash(p)
        head == SubSeq(p, 1, i)
    IN [head |-> IF \E k \in 1..Len(head) : head[k] # "/" THEN rstrip(head)
                 ELSE head,
        tail |-> SubSeq(p, i + 1, Len(p))]

\* os.path.basename(p)
basename(p) == SubSeq(p, LastSlash(p) + 1, Len(p))

(***************************************************************************)
(* Resolved paths and the kernel's path resolution.                        *)
(***************************************************************************)
Parent(p) == SubSeq(p, 1, Len(p) - 1)

Ancestors(p) == {SubSeq(p, 1, k) : k \in 0..Len(p)}

IsUnder(p, d) == Len(p) > Len(d) /\ SubSeq(p, 1, Len(d)) = d

\* the names of a path string between its slashes; an empty name (a doubled,
\* leading or trailing slash) counts for nothing
RECURSIVE Split(_, _, _)
Split(s, i, seg) ==
    IF i > Len(s) THEN (IF seg = <<>> THEN <<>> ELSE <<seg>>)
    ELSE IF s[i] = "/"
         THEN (IF seg = <<>> THEN <<>> ELSE <<seg>>) \o Split(s, i + 1, <<>>)
         ELSE Split(s, i + 1, Append(seg, s[i]))

Components(s) == Split(s, 1, <<>>)

\* where one name leads from the directory cur: "." stays, ".." goes to the
\* parent.  The parent of the working directory is not part of the model.
Step(cur, name) ==
    CASE name = <<".">> -> cur
      [] name = <<".", ".">> /\ cur # <<>> -> Parent(cur)
      [] name \notin {<<".">>, <<".", ".">>} -> Append(cur, name)

\* the directory reached from cur through names, each of which has to lead
\* to an existing directory
RECURSIVE Walk(_, _, _)
Walk(fs, cur, names) ==
    IF names = <<>> THEN [err |-> "", path |-> cur]
    ELSE LET to == Step(cur, Head(names)) IN
         IF to \in DOMAIN fs.dirs THEN Walk(fs, to, Tail(names))
         ELSE IF to \in DOMAIN fs.files
              THEN [err |-> "ENOTDIR", path |-> to]
              ELSE [err |-> "ENOENT", path |-> to]

\* The kernel's resolution of a path string relative to the working
\* directory: the errno of the walk to the last name ("" if none), the
\* resolved path, which may or may not exist, and whether the string asks for
\* a directory by a trailing slash.  An absolute path string leads out of the
\* modelled file system.
Resolve(fs, s) ==
    CASE s = <<>> -> [err |-> "ENOENT", path |-> <<>>, slash |-> FALSE]
      [] s # <<>> /\ s[1] # "/" ->
            LET names == Components(s)
                w == Walk(fs, <<>>, Front(names))
            IN IF w.err # ""
               THEN [err |-> w.err, path |-> w.path, slash |-> FALSE]
               ELSE [err |-> "",
                     path |-> Step(w.path, names[Len(names)]),
                     slash |-> s[Len(s)] = "/"]

\* os.path.isdir(s)
isdir(fs, s) ==
    LET r == Resolve(fs, s) IN r.err = "" /\ r.path \in DOMAIN fs.dirs

\* os.path.exists(s): os.stat(s) succeeds
exists(fs, s) ==
    LET r == Resolve(fs, s) IN
    /\ r.err = ""
    /\ \/ r.path \in DOMAIN fs.dirs
       \/ r.path \in DOMAIN fs.files /\ ~r.slash

\* os.mkdir(s): [fs, err], err being the errno of the OSError
mkdir(fs, s) ==
    LET r == Resolve(fs, s) IN
    IF r.err # "" THEN [fs |-> fs, err |-> r.err]
    ELSE IF r.path \in DOMAIN fs.dirs \/ r.path \in DOMAIN fs.files
    THEN [fs |-> fs, err |-> "EEXIST"]
    ELSE [fs |-> [fs EXCEPT !.dirs = Put(@, r.path, ProcessUser)],
          err |-> ""]

\* os.makedirs(name) of Python 2.7: [fs, err]
RECURSIVE makedirs(_, _)
makedirs(fs, name) ==
    LET first == split(name)
        parts == IF first.tail = <<>> THEN split(first.head) ELSE first
    IN IF parts.head # <<>> /\ parts.tail # <<>> /\ ~exists(fs, parts.head)
       THEN LET up == makedirs(fs, parts.head) IN
            IF up.err \notin {"", "EEXIST"} THEN up
            ELSE IF parts.tail = <<".">> THEN [fs |-> up.fs, err |-> ""]
            ELSE mkdir(up.fs, name)
       ELSE mkdir(fs, name)

\* TemplateConfig: "%s.j2" % basename, or "%s-%s.j2" % (basename, tag)
TemplateName(base, tag) ==
    IF tag = None THEN base \o <<".", "j", "2">> ELSE base \o <<"-">> \o tag \o <<".", "j", "2">>

\* The text a template renders to (params is fixed, so it depends on the
\* template alone).
Render(template) == <<"rendering of ">> \o template

(***************************************************************************)
(* Python values.  k is the type; s the characters of a str, the decimal   *)
(* digits of an int or long, or the name of None/True/False; items the     *)
(* items of a list or tuple, or key, value, key, value, ... of a dict in   *)
(* the order the dict iterates; re and im the value of a float (re) or the *)
(* parts of a complex, as decimal numbers.                                 *)
(*                                                                         *)
(* A decimal number [neg, digits, decpt] is 0.digits * 10^decpt, negated   *)
(* if neg; digits neither starts nor ends with "0", and zero has none.     *)
(***************************************************************************)
Zero == [neg |-> FALSE, digits |-> <<>>, decpt |-> 0]

Value(k, s, items) ==
    [k |-> k, s |-> s, items |-> items, re |-> Zero, im |-> Zero]

Num(k, s, re, im) == [k |-> k, s |-> s, items |-> <<>>, re |-> re, im |-> im]

Str(s) == Value("str", s, <<>>)
List(items) == Value("list", <<>>, items)
Tuple(items) == Value("tuple", <<>>, items)
Dict(items) == Value("dict", <<>>, items)
Malformed == Value("error", <<>>, <<>>)

Keys(d) == {d.items[2 * i - 1] : i \in 1..(Len(d.items) \div 2)}

\* dict[key]
Lookup(d, key) ==
    d.items[2 * (CHOOSE i \in 1..(Len(d.items) \div 2) :
                     d.items[2 * i - 1] = key)]

\* hash(): lists and dicts have none
RECURSIVE Hashable(_)
Hashable(v) ==
    /\ v.k \notin {"list", "dict"}
    /\ \A i \in 1..Len(v.items) : Hashable(v.items[i])

(***************************************************************************)
(* Decimal arithmetic on digit sequences (Python's int and long have no    *)
(* bound; a float is the double nearest to its literal).                   *)
(***************************************************************************)
Digit == {"0", "1", "2", "3", "4", "5", "6", "7", "8", "9"}

DigitVal ==
    [c \in Digit |->
        CASE c = "0" -> 0 [] c = "1" -> 1 [] c = "2" -> 2 [] c = "3" -> 3
          [] c = "4" -> 4 [] c = "5" -> 5 [] c = "6" -> 6 [] c = "7" -> 7
          [] c = "8" -> 8 [] c = "9" -> 9]
    @@ [c \in {"a", "b", "c", "d", "e", "f"} |->
        CASE c = "a" -> 10 [] c = "b" -> 11 [] c = "c" -> 12
          [] c = "d" -> 13 [] c = "e" -> 14 [] c = "f" -> 15]
    @@ [c \in {"A", "B", "C", "D", "E", "F"} |->
        CASE c = "A" -> 10 [] c = "B" -> 11 [] c = "C" -> 12
          [] c = "D" -> 13 [] c = "E" -> 14 [] c = "F" -> 15]

DigitChar == <<"0", "1", "2", "3", "4", "5", "6", "7", "8", "9">>

\* the digits of a natural number
RECURSIVE Decimal(_)
Decimal(n) ==
    IF n < 10 THEN <<DigitChar[n + 1]>>
    ELSE Append(Decimal(n \div 10), DigitChar[(n % 10) + 1])

\* the digits of ds * m + c, ds being digits without leading zeros (<<>> is 0)
RECURSIVE MulAdd(_, _, _)
MulAdd(ds, m, c) ==
    IF ds = <<>> THEN (IF c = 0 THEN <<>> ELSE Decimal(c))
    ELSE LET x == DigitVal[ds[Len(ds)]] * m + c
         IN Append(MulAdd(Front(ds), m, x \div 10), DigitChar[(x % 10) + 1])

\* the decimal digits (<<>> for 0) of the number written as digits in base
RECURSIVE NumberOf(_, _, _)
NumberOf(digits, base, acc) ==
    IF digits = <<>> THEN acc
    ELSE NumberOf(Tail(digits), base,
                  MulAdd(acc, base, DigitVal[Head(digits)]))

\* a <= b, for digits without leading zeros
AtMost(a, b) ==
    \/ Len(a) < Len(b)
    \/ /\ Len(a) = Len(b)
       /\ \/ a = b
          \/ LET i == CHOOSE j \in 1..Len(a) :
                         a[j] # b[j] /\ \A h \in 1..(j - 1) : a[h] = b[h]
             IN DigitVal[a[i]] < DigitVal[b[i]]

\* sys.maxint of a 64-bit build
maxint == <<"9", "2", "2", "3", "3", "7", "2", "0", "3", "6", "8", "5", "4", "7", "7", "5", "8", "0", "7">>

RECURSIVE StripLeading(_)
StripLeading(ds) ==
    IF ds # <<>> /\ ds[1] = "0" THEN StripLeading(Tail(ds)) ELSE ds

RECURSIVE StripTrailing(_)
StripTrailing(ds) ==
    IF ds # <<>> /\ ds[Len(ds)] = "0" THEN StripTrailing(Front(ds)) ELSE ds

\* the decimal number 0.ds * 10^decpt
Normal(neg, ds, decpt) ==
    LET lead == StripLeading(ds)
        body == StripTrailing(lead)
    IN IF body = <<>> THEN [neg |-> neg, digits |-> <<>>, decpt |-> 0]
       ELSE [neg |-> neg, digits |-> body,
             decpt |-> decpt - (Len(ds) - Len(lead))]

Zeros(n) == [i \in 1..n |-> "0"]

\* ds + 1, for a sequence of digits
RECURSIVE Increment(_)
Increment(ds) ==
    IF ds = <<>> THEN <<"1">>
    ELSE IF ds[Len(ds)] = "9" THEN Append(Increment(Front(ds)), "0")
    ELSE Append(Front(ds), DigitChar[DigitVal[ds[Len(ds)]] + 2])

\* The double rounded to 12 significant digits ("%.12g").  A double differs
\* from its literal far below the 15th digit, so the literal decides, except
\* when the digits dropped are exactly a half.
Round12(d) ==
    CASE Len(d.digits) <= 12 -> d
      [] Len(d.digits) > 12 /\ DigitVal[d.digits[13]] < 5 ->
            Normal(d.neg, SubSeq(d.digits, 1, 12), d.decpt)
      [] Len(d.digits) > 12
            /\ (DigitVal[d.digits[13]] > 5
                  \/ (d.digits[13] = "5" /\ Len(d.digits) > 13)) ->
            LET up == Increment(SubSeq(d.digits, 1, 12)) IN
            Normal(d.neg, up, d.decpt + (Len(up) - 12))

\* PyOS_double_to_string: exponent notation when the decimal point is at
\* -4 or further left or more than limit digits to the right; dot0 adds
\* ".0" to an integral value in positional notation
FormatDec(d, limit, dot0) ==
    LET n == Len(d.digits)
        exponent == d.decpt - 1
        magnitude == Decimal(IF exponent < 0 THEN 0 - exponent ELSE exponent)
        body ==
           IF n = 0 THEN <<"0">> \o (IF dot0 THEN <<".", "0">> ELSE <<>>)
           ELSE IF d.decpt <= -4 \/ d.decpt > limit
           THEN <<d.digits[1]>>
                   \o (IF n > 1 THEN <<".">> \o Tail(d.digits) ELSE <<>>)
                   \o <<"e", IF exponent < 0 THEN "-" ELSE "+">>
                   \o (IF Len(magnitude) < 2 THEN <<"0">> ELSE <<>>)
                   \o magnitude
           ELSE IF d.decpt <= 0
           THEN <<"0", ".">> \o Zeros(0 - d.decpt) \o d.digits
           ELSE IF d.decpt >= n
           THEN d.digits \o Zeros(d.decpt - n)
                   \o (IF dot0 THEN <<".", "0">> ELSE <<>>)
           ELSE SubSeq(d.digits, 1, d.decpt) \o <<".">>
                   \o SubSeq(d.digits, d.decpt + 1, n)
    IN (IF d.neg THEN <<"-">> ELSE <<>>) \o body

\* complex_format: a real part of +0.0 is not shown
ComplexFormat(re, im, limit) ==
    IF re = Zero THEN FormatDec(im, limit, FALSE) \o <<"j">>
    ELSE <<"(">> \o FormatDec(re, limit, FALSE)
            \o (IF im.neg THEN <<>> ELSE <<"+">>)
            \o FormatDec(im, limit, FALSE) \o <<"j", ")">>

(***************************************************************************)
(* Number tokens.  An integer is decimal, octal (0.., 0o..), hexadecimal   *)
(* (0x..) or binary (0b..), with an optional L; a float has a point or an  *)
(* exponent; a j makes a decimal or float imaginary.  A float is modelled  *)
(* when it has at most 15 significant digits and lies between 1e-300 and   *)
(* 1e300 (or is zero): then the double and the literal have the same       *)
(* shortest decimal form.                                                  *)
(***************************************************************************)
\* the end of the run of decimal digits that starts at w[i]
RECURSIVE Span(_, _)
Span(w, i) == IF i <= Len(w) /\ w[i] \in Digit THEN Span(w, i + 1) ELSE i

\* [ok, long, digits, base] of an integer token
IntParts(w) ==
    LET long == w # <<>> /\ w[Len(w)] \in {"L", "l"}
        body == IF long THEN Front(w) ELSE w
        prefixed == Len(body) >= 2 /\ body[1] = "0"
        base == IF ~prefixed THEN 10
                ELSE IF body[2] \in {"x", "X"} THEN 16
                ELSE IF body[2] \in {"b", "B"} THEN 2
                ELSE 8
        digits == IF ~prefixed THEN body
                  ELSE IF body[2] \in {"x", "X", "o", "O", "b", "B"}
                       THEN SubSeq(body, 3, Len(body))
                  ELSE Tail(body)
    IN [ok |-> /\ digits # <<>>
               /\ \A i \in 1..Len(digits) :
                     /\ digits[i] \in DOMAIN DigitVal
                     /\ DigitVal[digits[i]] < base,
        long |-> long, digits |-> digits, base |-> base]

\* [ok, imag, mant, point, eneg, edigits] of a float or imaginary token:
\* the digits of the mantissa, how many of them are before the point, and
\* the exponent.  The token is digits up to w[a], a fraction up to w[b], an
\* exponent whose digits are from w[c] up to w[d], and a j at w[d] or nothing.
FloatEnd(w, a, b, c, d) ==
    LET imag == d = Len(w) /\ w[d] \in {"j", "J"}
        frac == IF b > a THEN SubSeq(w, a + 1, b - 1) ELSE <<>>
    IN [ok |-> /\ (IF imag THEN d + 1 ELSE d) = Len(w) + 1
               /\ a > 1 \/ frac # <<>>
               /\ c > b => d > c
               /\ b > a \/ c > b \/ imag,
        imag |-> imag,
        mant |-> SubSeq(w, 1, a - 1) \o frac,
        point |-> a - 1,
        eneg |-> c = b + 2 /\ w[b + 1] = "-",
        edigits |-> IF c > b THEN SubSeq(w, c, d - 1) ELSE <<>>]

FloatFraction(w, a, b) ==
    LET hasE == b <= Len(w) /\ w[b] \in {"e", "E"}
        signed == hasE /\ b + 1 <= Len(w) /\ w[b + 1] \in {"+", "-"}
        c == IF ~hasE THEN b ELSE IF signed THEN b + 2 ELSE b + 1
    IN FloatEnd(w, a, b, c, IF hasE THEN Span(w, c) ELSE b)

FloatParts(w) ==
    LET a == Span(w, 1)
    IN FloatFraction(w, a,
                     IF a <= Len(w) /\ w[a] = "." THEN Span(w, a + 1) ELSE a)

\* the int a digit sequence of at most 3 digits denotes
Small(ds) == IF ds = <<>> THEN 0
             ELSE IF Len(ds) = 1 THEN DigitVal[ds[1]]
             ELSE IF Len(ds) = 2 THEN DigitVal[ds[1]] * 10 + DigitVal[ds[2]]
             ELSE DigitVal[ds[1]] * 100 + DigitVal[ds[2]] * 10
                     + DigitVal[ds[3]]

\* the decimal number n of a token whose exponent has elen digits, if the
\* model has it
InRange(n, elen) ==
    CASE n.digits = <<>> -> n
      [] n.digits # <<>> /\ elen <= 3
            /\ Len(n.digits) <= 15 /\ n.decpt >= -300 /\ n.decpt <= 300 -> n

\* the decimal number of a float or imaginary token: the exponent moves
\* the decimal point
FloatDec(p, neg) ==
    InRange(Normal(neg, p.mant,
                   IF p.eneg THEN p.point - Small(StripLeading(p.edigits))
                   ELSE p.point + Small(StripLeading(p.edigits))),
            Len(StripLeading(p.edigits)))

\* the int or long of the digits n (<<>> for 0): long with an L and beyond
\* sys.maxint, -sys.maxint - 1 being an int
IntValue(n, long, neg) ==
    [ok |-> TRUE,
     val |-> Num(IF long \/ (~AtMost(n, maxint)
                               /\ ~(neg /\ n = Increment(maxint)))
                 THEN "long" ELSE "int",
                 (IF neg /\ n # <<>> THEN <<"-">> ELSE <<>>)
                    \o (IF n = <<>> THEN <<"0">> ELSE n),
                 Normal(neg /\ n # <<>>, n, Len(n)), Zero)]

NumberFrom(i, f, neg) ==
    IF i.ok THEN IntValue(NumberOf(i.digits, i.base, <<>>), i.long, neg)
    ELSE IF f.ok
    THEN [ok |-> TRUE,
          val |-> IF f.imag THEN Num("complex", <<>>, Zero, FloatDec(f, neg))
                  ELSE Num("float", <<>>, FloatDec(f, neg), Zero)]
    ELSE [ok |-> FALSE, val |-> Malformed]

\* [ok, val]: the value of a NUMBER token, after a "-" if neg (the compiler
\* makes one constant of "-" and the number that follows it)
Number(w, neg) == NumberFrom(IntParts(w), FloatParts(w), neg)

\* float(x) of an int or long, or of a float: 15 digits are exact
AsFloat(v) ==
    CASE v.k = "float" -> v.re
      [] v.k \in {"int", "long"}
            /\ Len(v.re.digits) <= 15 /\ v.re.decpt <= 300 -> v.re

\* left + right and left - right for a complex right: the parts are added to
\* and subtracted from 0.0, which leaves a zero negative only in -0.0 - 0.0
ComplexSum(left, minus, right) ==
    LET l == AsFloat(left)
        re == IF l.digits = <<>> THEN [l EXCEPT !.neg = l.neg /\ minus]
              ELSE l
        im == IF right.im.digits = <<>> THEN Zero
              ELSE IF minus THEN [right.im EXCEPT !.neg = ~right.im.neg]
              ELSE right.im
    IN Num("complex", <<>>, re, im)

\* What == and hash() go by: a number is its value (True is 1, 1.0 is 1, a
\* complex without imaginary part is its real part).  A float is the number
\* of its literal up to 1e15.
RECURSIVE Canon(_)
Canon(v) ==
    LET exact(d) == d.digits = <<>> \/ d.decpt <= 15
        abs0(d) == IF d.digits = <<>> THEN Zero ELSE d
    IN CASE v.k \in {"int", "long"} -> Num("number", <<>>, v.re, Zero)
         [] v.k = "bool" ->
               Num("number", <<>>,
                   IF v.s = <<"T", "r", "u", "e">> THEN Normal(FALSE, <<"1">>, 1) ELSE Zero,
                   Zero)
         [] v.k \in {"float", "complex"} /\ exact(v.re) /\ exact(v.im) ->
               Num("number", <<>>, abs0(v.re), abs0(v.im))
         [] v.k \notin {"int", "long", "bool", "float", "complex"} ->
               Value(v.k, v.s, [i \in 1..Len(v.items) |-> Canon(v.items[i])])

\* d[key] = val while the dict is built: a key equal to one already there
\* keeps the old key and takes the new value
DictPut(items, key, val) ==
    IF \E i \in 1..(Len(items) \div 2) : Canon(items[2 * i - 1]) = Canon(key)
    THEN [i \in 1..Len(items) |->
             IF i % 2 = 0 /\ Canon(items[i - 1]) = Canon(key) THEN val
             ELSE items[i]]
    ELSE items \o <<key, val>>

(***************************************************************************)
(* The text of a serialized literal is the sequence of its lexical tokens: *)
(*   Q(s)  a string literal without prefix or with an r or b prefix, s     *)
(*         being the characters it denotes (a u prefix makes a unicode     *)
(*         object, which the model has not);                               *)
(*   W(s)  characters that are neither white space nor part of a string    *)
(*         literal or comment: names, numbers, operators and delimiters,   *)
(*         one token or several written without a gap;                     *)
(*   S(s)  white space: blanks, tabs and newlines;                         *)
(*   C(s)  a comment, from its # to the end of the line.                   *)
(* The empty text is the empty sequence.                                   *)
(***************************************************************************)
Q(s) == [t |-> "string", s |-> s]
W(s) == [t |-> "word", s |-> s]
S(s) == [t |-> "space", s |-> s]
C(s) == [t |-> "comment", s |-> s]

Mark == {"[", "]", "(", ")", "{", "}", ",", ":", "+", "-"}

\* digits with at most one point among them: what an exponent can follow
Mantissa(m) ==
    /\ \A i \in 1..Len(m) : m[i] \in Digit \cup {"."}
    /\ \E i \in 1..Len(m) : m[i] \in Digit
    /\ \A i, j \in 1..Len(m) : (m[i] = "." /\ m[j] = ".") => i = j

\* the sign at w[i] belongs to the exponent of the number that starts at w[b]
ExponentSign(w, b, i) ==
    /\ w[i] \in {"+", "-"}
    /\ i - b >= 2
    /\ w[i - 1] \in {"e", "E"}
    /\ Mantissa(SubSeq(w, b, i - 2))
    /\ i < Len(w)
    /\ w[i + 1] \in Digit

\* the tokens of a word: its operators and delimiters, and what is between
\* them
RECURSIVE Pieces(_, _, _)
Pieces(w, b, i) ==
    LET open == IF b < i THEN <<W(SubSeq(w, b, i - 1))>> ELSE <<>> IN
    IF i > Len(w) THEN open
    ELSE IF w[i] \in Mark /\ ~ExponentSign(w, b, i)
    THEN open \o <<W(<<w[i]>>)>> \o Pieces(w, i + 1, i + 1)
    ELSE Pieces(w, b, i + 1)

\* by how much the tokens change the depth of brackets
RECURSIVE Nesting(_)
Nesting(ts) ==
    IF ts = <<>> THEN 0
    ELSE (IF Head(ts).s \in {<<"[">>, <<"(">>, <<"{">>} THEN 1
          ELSE IF Head(ts).s \in {<<"]">>, <<")">>, <<"}">>} THEN -1
          ELSE 0) + Nesting(Tail(ts))

\* the word right before text[i] ends in a letter that can start a string
\* prefix (u, ur, b, br, r): the two are one string literal, not two tokens
Prefixed(text, i) ==
    /\ i > 1
    /\ text[i - 1].t = "word"
    /\ text[i - 1].s # <<>>
    /\ text[i - 1].s[Len(text[i - 1].s)] \in {"u", "U", "b", "B", "r", "R"}

\* The tokens the parser gets from text[i] on, or the failure of the
\* tokenizer: a newline outside all brackets ends the expression, and only
\* white space and comments may follow it.  A word holds no quote, #,
\* backslash or white space; white space is of blanks, tabs and newlines;
\* a string literal follows no string prefix left in a word.
RECURSIVE Tokens(_, _, _, _, _)
Tokens(text, i, depth, ended, acc) ==
    IF i > Len(text) THEN [ok |-> TRUE, tokens |-> acc]
    ELSE
    CASE text[i].t = "comment" -> Tokens(text, i + 1, depth, ended, acc)
      [] text[i].t = "space"
            /\ \A j \in 1..Len(text[i].s) : text[i].s[j] \in {" ", "\t", "\n"} ->
            Tokens(text, i + 1, depth,
                   ended \/ (depth <= 0
                               /\ \E j \in 1..Len(text[i].s) :
                                     text[i].s[j] = "\n"),
                   acc)
      [] text[i].t = "string" /\ ~Prefixed(text, i) ->
            IF ended THEN [ok |-> FALSE, tokens |-> <<>>]
            ELSE Tokens(text, i + 1, depth, ended, Append(acc, text[i]))
      [] text[i].t = "word"
            /\ \A j \in 1..Len(text[i].s) :
                  text[i].s[j] \notin
                     {"'", "\"", "#", "\\", " ", "\t", "\n", "\r", "\f"} ->
            LET ts == Pieces(text[i].s, 1, 1) IN
            IF ended THEN [ok |-> FALSE, tokens |-> <<>>]
            ELSE Tokens(text, i + 1, depth + Nesting(ts), ended, acc \o ts)

\* the white space right before text[i], back to a comment or the start
RECURSIVE SpaceBefore(_, _)
SpaceBefore(text, i) ==
    IF i > 1 /\ text[i - 1].t = "space"
    THEN SpaceBefore(text, i - 1) \o text[i - 1].s
    ELSE <<>>

\* the white space ends in blanks or tabs
Indented(space) == space # <<>> /\ space[Len(space)] \in {" ", "\t"}

\* [ok, tokens]: the tokens of the expression.  Blank and comment lines
\* before it are skipped; blanks or tabs at the start of its first line are
\* an unexpected indent, and so is a last line of blanks or tabs that no
\* newline ends (a line that a newline ends is blank and skipped); a text
\* without a token is an unexpected end.
Lex(text) ==
    LET real == {i \in 1..Len(text) : text[i].t \in {"string", "word"}} IN
    IF real = {} THEN [ok |-> FALSE, tokens |-> <<>>]
    ELSE LET first == CHOOSE i \in real : \A j \in real : i <= j
             last == SpaceBefore(text, Len(text) + 1)
         IN IF Indented(SpaceBefore(text, first))
               \/ (Indented(last) /\ \E j \in 1..Len(last) : last[j] = "\n")
            THEN [ok |-> FALSE, tokens |-> <<>>]
            ELSE Tokens(text, first, 0, FALSE, <<>>)

(***************************************************************************)
(* ast.literal_eval of Python 2.7 on the tokens: strings, numbers, None,   *)
(* True, False, lists, tuples, dicts, and a real number plus or minus an   *)
(* imaginary one.  Anything else raises in the compiler (SyntaxError) or   *)
(* in literal_eval (ValueError, TypeError for an unhashable key).          *)
(***************************************************************************)
\* a parse: the value, the index of the next token, and whether the
\* expression is a number literal (parentheses around it or not)
Fail == [ok |-> FALSE, val |-> Malformed, next |-> 0, num |-> FALSE]
Ok(v, n) == [ok |-> TRUE, val |-> v, next |-> n, num |-> FALSE]

IsMark(t, i, m) == i <= Len(t) /\ t[i].t = "word" /\ t[i].s = <<m>>

\* the parse of a number token
AsNumber(n, next) ==
    IF n.ok THEN [ok |-> TRUE, val |-> n.val, next |-> next, num |-> TRUE]
    ELSE Fail

\* a word that is no operator or delimiter: None, True, False or a number;
\* any other name is no literal, and nothing else is a token
Word(w, next) ==
    IF w = <<"N", "o", "n", "e">> THEN Ok(Value("none", w, <<>>), next)
    ELSE IF w \in {<<"T", "r", "u", "e">>, <<"F", "a", "l", "s", "e">>} THEN Ok(Value("bool", w, <<>>), next)
    ELSE AsNumber(Number(w, FALSE), next)

\* "-" and the number token after it
Negative(t, i) ==
    IF i <= Len(t) /\ t[i].t = "word"
    THEN AsNumber(Number(t[i].s, TRUE), i + 1)
    ELSE Fail

\* STRING+: adjacent string literals are one string
RECURSIVE Strings(_, _, _)
Strings(t, i, acc) ==
    IF i <= Len(t) /\ t[i].t = "string" THEN Strings(t, i + 1, acc \o t[i].s)
    ELSE Ok(Str(acc), i)

RECURSIVE ParseValue(_, _), ParseAtom(_, _), ParseItems(_, _, _, _),
          ParseParen(_, _), ParseDict(_, _, _)

\* an operand
ParseAtom(t, i) ==
    IF i > Len(t) THEN Fail
    ELSE IF t[i].t = "string" THEN Strings(t, i, <<>>)
    ELSE IF t[i].s = <<"[">> THEN ParseItems(t, i + 1, <<>>, "]")
    ELSE IF t[i].s = <<"(">> THEN ParseParen(t, i + 1)
    ELSE IF t[i].s = <<"{">> THEN ParseDict(t, i + 1, <<>>)
    ELSE IF t[i].s = <<"-">> THEN Negative(t, i + 1)
    ELSE Word(t[i].s, i + 1)

\* a, then + or - (minus), then b: int/long/float + or - complex, both
\* number literals
BinOp(a, minus, b) ==
    IF a.num /\ a.val.k \in {"int", "long", "float"}
          /\ b.ok /\ b.num /\ b.val.k = "complex"
    THEN Ok(ComplexSum(a.val, minus, b.val), b.next)
    ELSE Fail

\* the operand a, or a BinOp of it
Operands(t, a) ==
    IF a.ok /\ (IsMark(t, a.next, "+") \/ IsMark(t, a.next, "-"))
    THEN BinOp(a, IsMark(t, a.next, "-"), ParseAtom(t, a.next + 1))
    ELSE a

\* an operand, or int/long/float + or - complex
ParseValue(t, i) == Operands(t, ParseAtom(t, i))

\* the items acc of a list (close is "]") or a tuple
Sequence(acc, close) == IF close = "]" THEN List(acc) ELSE Tuple(acc)

\* after the item e
AfterItem(t, e, acc, close) ==
    IF ~e.ok THEN Fail
    ELSE IF IsMark(t, e.next, ",")
         THEN ParseItems(t, e.next + 1, Append(acc, e.val), close)
    ELSE IF IsMark(t, e.next, close)
         THEN Ok(Sequence(Append(acc, e.val), close), e.next + 1)
    ELSE Fail

\* at an item or at the closing mark (also after a trailing comma)
ParseItems(t, i, acc, close) ==
    IF IsMark(t, i, close) THEN Ok(Sequence(acc, close), i + 1)
    ELSE AfterItem(t, ParseValue(t, i), acc, close)

\* after "(" and the value e
AfterFirst(t, e) ==
    IF ~e.ok THEN Fail
    ELSE IF IsMark(t, e.next, ")") THEN [e EXCEPT !.next = e.next + 1]
    ELSE IF IsMark(t, e.next, ",")
         THEN ParseItems(t, e.next + 1, <<e.val>>, ")")
    ELSE Fail

\* after "(": the empty tuple, a parenthesised value, or a tuple
ParseParen(t, i) ==
    IF IsMark(t, i, ")") THEN Ok(Tuple(<<>>), i + 1)
    ELSE AfterFirst(t, ParseValue(t, i))

\* after the key and the value v of an entry
AfterEntry(t, items, key, v) ==
    IF ~v.ok THEN Fail
    ELSE IF IsMark(t, v.next, ",")
         THEN ParseDict(t, v.next + 1, DictPut(items, key.val, v.val))
    ELSE IF IsMark(t, v.next, "}")
         THEN Ok(Dict(DictPut(items, key.val, v.val)), v.next + 1)
    ELSE Fail

\* after the key; an unhashable key is a TypeError of literal_eval
AfterKey(t, items, key) ==
    IF ~key.ok \/ ~Hashable(key.val) \/ ~IsMark(t, key.next, ":") THEN Fail
    ELSE AfterEntry(t, items, key, ParseValue(t, key.next + 1))

\* at a key or at the closing brace (also after a trailing comma)
ParseDict(t, i, items) ==
    IF IsMark(t, i, "}") THEN Ok(Dict(items), i + 1)
    ELSE AfterKey(t, items, ParseValue(t, i))

RECURSIVE ParseBare(_, _, _)

\* after the item e of a tuple without parentheses
AfterBare(t, e, acc) ==
    IF ~e.ok THEN Fail
    ELSE IF e.next > Len(t) THEN Ok(Tuple(Append(acc, e.val)), e.next)
    ELSE IF IsMark(t, e.next, ",")
         THEN ParseBare(t, e.next + 1, Append(acc, e.val))
    ELSE Fail

\* a value, then commas: a tuple without parentheses, up to the end
ParseBare(t, i, acc) ==
    IF i > Len(t) THEN Ok(Tuple(acc), i)
    ELSE AfterBare(t, ParseValue(t, i), acc)

\* the whole of the tokens t is the expression parsed as b
Whole(t, b) == IF b.ok /\ b.next = Len(t) + 1 THEN b.val ELSE Malformed

\* the first value r, or the tuple without parentheses it starts
Expression(t, r) ==
    Whole(t, IF r.ok /\ IsMark(t, r.next, ",")
             THEN ParseBare(t, r.next + 1, <<r.val>>)
             ELSE r)

Parse(lexed) ==
    IF lexed.ok THEN Expression(lexed.tokens, ParseValue(lexed.tokens, 1))
    ELSE Malformed

\* The value of the text, its dicts listing their entries as written;
\* Malformed if the text raises.
literal_eval(text) == Parse(Lex(text))

Injections(n) ==
    {p \in [1..n -> 1..n] : \A i, j \in 1..n : p[i] = p[j] => i = j}

\* one value out of each set of the sequence
Choices(sets) ==
    {f \in [1..Len(sets) -> UNION {sets[i] : i \in 1..Len(sets)}] :
        \A i \in 1..Len(sets) : f[i] \in sets[i]}

\* A dict iterates in the order of its hash table, which the text does not
\* fix: the values v may be, one for each order of each dict in it.
RECURSIVE Orderings(_)
Orderings(v) ==
    IF v.k = "dict"
    THEN LET n == Len(v.items) \div 2 IN
         UNION {
            {Dict([i \in 1..(2 * n) |->
                     IF i % 2 = 1 THEN v.items[2 * p[(i + 1) \div 2] - 1]
                     ELSE vals[p[i \div 2]]]) :
                vals \in Choices([i \in 1..n |-> Orderings(v.items[2 * i])])}
            : p \in Injections(n)}
    ELSE IF v.k \in {"list", "tuple"}
    THEN {[v EXCEPT !.items = [i \in 1..Len(v.items) |-> f[i]]] :
            f \in Choices([i \in 1..Len(v.items) |-> Orderings(v.items[i])])}
    ELSE {v}

\* the values ast.literal_eval(text) may return
Decodings(text) == Orderings(literal_eval(text))

(***************************************************************************)
(* Iteration and formatting.                                               *)
(***************************************************************************)
Iterable(v) == v.k \in {"str", "list", "tuple", "dict"}

\* "for x in v": the characters of a str, the items of a list or tuple,
\* the keys of a dict. A dict value holds its entries in the order in which
\* it iterates, which Orderings chooses among all orders when the value is
\* decoded; Elements reads that order.
Elements(v) ==
    IF v.k = "str" THEN [i \in 1..Len(v.s) |-> Str(<<v.s[i]>>)]
    ELSE IF v.k = "dict"
    THEN [i \in 1..(Len(v.items) \div 2) |-> v.items[2 * i - 1]]
    ELSE v.items

\* the characters repr() shows as they are (the grave accent, which a TLA+
\* string cannot hold, is not among the characters of the model)
Printable ==
    {" ", "!", "\"", "#", "$", "%", "&", "'", "(", ")", "*", "+", ",", "-",
     ".", "/", "0", "1", "2", "3", "4", "5", "6", "7", "8", "9", ":", ";",
     "<", "=", ">", "?", "@", "A", "B", "C", "D", "E", "F", "G", "H", "I",
     "J", "K", "L", "M", "N", "O", "P", "Q", "R", "S", "T", "U", "V", "W",
     "X", "Y", "Z", "[", "\\", "]", "^", "_", "a", "b", "c", "d", "e",
     "f", "g", "h", "i", "j", "k", "l", "m", "n", "o", "p", "q", "r", "s",
     "t", "u", "v", "w", "x", "y", "z", "{", "|", "}", "~"}

\* repr() of a str: in double quotes if it holds a single quote and no
\* double quote; the quote and the backslash escaped, a tab, newline and
\* return by their letters, every other character outside printable ASCII
\* by \x and its code (of these the model has the form feed alone)
ReprStr(s) ==
    LET has(c) == \E i \in 1..Len(s) : s[i] = c
        quote == IF has("'") /\ ~has("\"") THEN "\"" ELSE "'"
        esc(c) == CASE c = "\\" \/ c = quote -> <<"\\", c>>
                    [] c = "\n" -> <<"\\", "n">>
                    [] c = "\t" -> <<"\\", "t">>
                    [] c = "\r" -> <<"\\", "r">>
                    [] c = "\f" -> <<"\\", "x", "0", "c">>
                    [] c \in Printable \ {"\\", quote} -> <<c>>
    IN <<quote>> \o Concat([i \in 1..Len(s) |-> esc(s[i])]) \o <<quote>>

RECURSIVE Repr(_)
Repr(v) ==
    LET reprs == [i \in 1..Len(v.items) |-> Repr(v.items[i])] IN
    CASE v.k = "str" -> ReprStr(v.s)
      [] v.k = "long" -> Append(v.s, "L")
      [] v.k \in {"int", "bool", "none"} -> v.s
      [] v.k = "float" -> FormatDec(v.re, 16, TRUE)
      [] v.k = "complex" -> ComplexFormat(v.re, v.im, 16)
      [] v.k = "list" -> <<"[">> \o Separated(reprs, <<",", " ">>) \o <<"]">>
      [] v.k = "tuple" ->
            <<"(">> \o Separated(reprs, <<",", " ">>)
               \o (IF Len(v.items) = 1 THEN <<",">> ELSE <<>>) \o <<")">>
      [] v.k = "dict" ->
            <<"{">>
               \o Separated([i \in 1..(Len(v.items) \div 2) |->
                                reprs[2 * i - 1] \o <<":", " ">> \o reprs[2 * i]],
                            <<",", " ">>)
               \o <<"}">>

\* str()
ToStr(v) ==
    CASE v.k \in {"str", "int", "long", "bool", "none"} -> v.s
      [] v.k = "float" -> FormatDec(Round12(v.re), 11, TRUE)
      [] v.k = "complex" ->
            ComplexFormat(Round12(v.re), Round12(v.im), 12)
      [] v.k \in {"list", "tuple", "dict"} -> Repr(v)

\* "%s" % v raises TypeError for a tuple that is not of one item
Formats(v) == v.k = "tuple" => Len(v.items) = 1

\* "%s" % v
Format(v) == IF v.k = "tuple" THEN ToStr(v.items[1]) ELSE ToStr(v)

(***************************************************************************)
(* The parameter sets of the invocations.                                  *)
(***************************************************************************)
Absent == <<>>

LBracket == W(<<"[">>)
RBracket == W(<<"]">>)
LBrace == W(<<"{">>)
RBrace == W(<<"}">>)
Comma == W(<<",">>)
Colon == W(<<":">>)
Blank == S(<<" ">>)

\* ["-Xmx512m", "-Xms256m"]
JvmValid ==
    <<LBracket, Q(<<"-", "X", "m", "x", "5", "1", "2", "m">>), Comma, Blank, Q(<<"-", "X", "m", "s", "2", "5", "6", "m">>), RBracket>>
\* ["-Xmx" "1g", 1, 1.5, 9223372036854775808, ["a", 2L]]
JvmMixed ==
    <<LBracket, Q(<<"-", "X", "m", "x">>), Blank, Q(<<"1", "g">>), Comma, Blank, W(<<"1", ",">>), Blank,
      W(<<"1", ".", "5", ",">>), Blank, W(<<"9", "2", "2", "3", "3", "7", "2", "0", "3", "6", "8", "5", "4", "7", "7", "5", "8", "0", "8", ",">>), Blank,
      LBracket, Q(<<"a">>), Comma, Blank, W(<<"2", "L", "]", "]">>)>>
\* a blank and nothing else
JvmBlank == <<Blank>>
\* ["-server"], a newline and a last line of one blank
JvmLastLineBlank ==
    <<LBracket, Q(<<"-", "s", "e", "r", "v", "e", "r">>), RBracket, S(<<"\n", " ">>)>>
\* "-server"
JvmString == <<Q(<<"-", "s", "e", "r", "v", "e", "r">>)>>

\* {"hive": ["connector.name=hive", "a=b"], "tpch": ["connector.name=tpch"]}
CatalogValid ==
    <<LBrace, Q(<<"h", "i", "v", "e">>), Colon, Blank,
          LBracket, Q(<<"c", "o", "n", "n", "e", "c", "t", "o", "r", ".", "n", "a", "m", "e", "=", "h", "i", "v", "e">>), Comma, Blank, Q(<<"a", "=", "b">>),
          RBracket, Comma, Blank,
      Q(<<"t", "p", "c", "h">>), Colon, Blank, LBracket, Q(<<"c", "o", "n", "n", "e", "c", "t", "o", "r", ".", "n", "a", "m", "e", "=", "t", "p", "c", "h">>), RBracket,
      RBrace>>
\* {"hive": ["a=c"], "hive": ["connector.name=hive"]}
CatalogRepeatedKey ==
    <<LBrace, Q(<<"h", "i", "v", "e">>), Colon, Blank, LBracket, Q(<<"a", "=", "c">>), RBracket, Comma,
      Blank, Q(<<"h", "i", "v", "e">>), Colon, Blank, LBracket, Q(<<"c", "o", "n", "n", "e", "c", "t", "o", "r", ".", "n", "a", "m", "e", "=", "h", "i", "v", "e">>),
      RBracket, RBrace>>
\* {"../extra": ["a=b"]}
CatalogOutside ==
    <<LBrace, Q(<<".", ".", "/", "e", "x", "t", "r", "a">>), Colon, Blank, LBracket, Q(<<"a", "=", "b">>), RBracket,
      RBrace>>

\* {"myplugin": ["a.jar", "b.jar"]}
PluginsValid ==
    <<LBrace, Q(<<"m", "y", "p", "l", "u", "g", "i", "n">>), Colon, Blank,
      LBracket, Q(<<"a", ".", "j", "a", "r">>), Comma, Blank, Q(<<"b", ".", "j", "a", "r">>), RBracket, RBrace>>

P(j, c, a, comp) ==
    [jvm_args |-> j, catalog_properties |-> c, addon_plugins |-> a,
     component |-> comp]

\* The invocations of the model: the first is without the optional fields.
ParameterSets ==
    { P(Absent, Absent, Absent, None),
      P(JvmValid, CatalogValid, PluginsValid, <<"C", "O", "O", "R", "D", "I", "N", "A", "T", "O", "R">>),
      \* jvm_args: ["-Xmx512m",
      P(<<LBracket, Q(<<"-", "X", "m", "x", "5", "1", "2", "m">>), Comma>>,
        CatalogValid, PluginsValid, <<"W", "O", "R", "K", "E", "R">>),
      \* catalog: {"hive": connector}
      P(JvmValid,
        <<LBrace, Q(<<"h", "i", "v", "e">>), Colon, Blank, W(<<"c", "o", "n", "n", "e", "c", "t", "o", "r", "}">>)>>,
        PluginsValid, <<"W", "O", "R", "K", "E", "R">>),
      \* plugin: {"myplugin" ["a.jar"]}
      P(JvmValid, CatalogValid,
        <<LBrace, Q(<<"m", "y", "p", "l", "u", "g", "i", "n">>), Blank, LBracket, Q(<<"a", ".", "j", "a", "r">>), RBracket,
          RBrace>>,
        <<"C", "O", "O", "R", "D", "I", "N", "A", "T", "O", "R">>),
      \* jvm_args: ["-server", "-server",]
      \* plugin: {"myplugin": ["a.jar", "c.jar"]}
      P(<<LBracket, Q(<<"-", "s", "e", "r", "v", "e", "r">>), Comma, Blank, Q(<<"-", "s", "e", "r", "v", "e", "r">>), Comma,
          RBracket>>,
        CatalogRepeatedKey,
        <<LBrace, Q(<<"m", "y", "p", "l", "u", "g", "i", "n">>), Colon, Blank,
          LBracket, Q(<<"a", ".", "j", "a", "r">>), Comma, Blank, Q(<<"c", ".", "j", "a", "r">>), RBracket, RBrace>>,
        <<"W", "O", "R", "K", "E", "R">>),
      \* plugin: {"myplugin": ["b.jar"], "other": ["a.jar"]}
      P(Absent, CatalogOutside,
        <<LBrace, Q(<<"m", "y", "p", "l", "u", "g", "i", "n">>), Colon, Blank, LBracket, Q(<<"b", ".", "j", "a", "r">>),
          RBracket, Comma, Blank,
          Q(<<"o", "t", "h", "e", "r">>), Colon, Blank, LBracket, Q(<<"a", ".", "j", "a", "r">>), RBracket, RBrace>>,
        <<"W", "O", "R", "K", "E", "R">>),
      P(Absent, JvmValid, Absent, <<"C", "O", "O", "R", "D", "I", "N", "A", "T", "O", "R">>),
      \* catalog: {"hive": ("a=b",)}
      P(JvmMixed,
        <<LBrace, Q(<<"h", "i", "v", "e">>), Colon, Blank, W(<<"(">>), Q(<<"a", "=", "b">>), Comma, W(<<")">>),
          RBrace>>,
        Absent, None),
      P(JvmString, CatalogRepeatedKey, Absent, None),
      \* jvm_args: None
      P(<<W(<<"N", "o", "n", "e">>)>>, CatalogValid, Absent, <<"W", "O", "R", "K", "E", "R">>),
      P(JvmBlank, CatalogValid, Absent, None),
      P(JvmLastLineBlank, Absent, Absent, None) }

(***************************************************************************)
(* The file systems set_configuration may start from.                      *)
(***************************************************************************)
File(content, who) ==
    [content |-> content, owner |-> who.owner, group |-> who.group]

SourceDirs ==
    (<<>> :> ProcessUser) @@ (Components(source_plugin_dir) :> ProcessUser)
SourceFiles ==
    (Components(join(source_plugin_dir, <<"a", ".", "j", "a", "r">>))
        :> File(<<"bytes of a">>, ProcessUser))
    @@ (Components(join(source_plugin_dir, <<"b", ".", "j", "a", "r">>))
        :> File(<<"bytes of b">>, ProcessUser))

\* a host configured before, by another user
Deployed ==
    [dirs |-> SourceDirs
              @@ (<<<<"p", "r", "e", "s", "t", "o">>>> :> Foreign)
              @@ (Components(conf_dir) :> Foreign)
              @@ (Components(catalog_dir) :> Configured)
              @@ (<<<<"v", "a", "r">>>> :> Foreign)
              @@ (Components(log_dir) :> Foreign)
              @@ (Components(presto_plugin_dir) :> Foreign)
              @@ (Components(join(presto_plugin_dir, <<"m", "y", "p", "l", "u", "g", "i", "n">>)) :> Foreign),
     files |-> SourceFiles
              @@ (Components(Under(conf_dir, <<"j", "v", "m", ".", "c", "o", "n", "f", "i", "g">>))
                      :> File(<<"-", "s", "e", "r", "v", "e", "r">>, Foreign))
              @@ (Components(Under(conf_dir, <<"c", "o", "n", "f", "i", "g", ".", "p", "r", "o", "p", "e", "r", "t", "i", "e", "s">>))
                      :> File(<<"stale">>, Foreign))
              @@ (Components(Under(catalog_dir, <<"h", "i", "v", "e", ".", "p", "r", "o", "p", "e", "r", "t", "i", "e", "s">>))
                      :> File(<<"a", "=", "o", "l", "d">> \o <<"\n">>, Foreign))
              @@ (Components(join(join(presto_plugin_dir, <<"m", "y", "p", "l", "u", "g", "i", "n">>),
                                  <<"a", ".", "j", "a", "r">>))
                      :> File(<<"stale jar">>, Foreign))]

\* a host never configured before, and one configured before
InitialFileSystems == {[dirs |-> SourceDirs, files |-> SourceFiles], Deployed}

(***************************************************************************)
(* The helpers.  Each takes the file system fs = [dirs, files] and yields  *)
(* [fs, err, ev]: the file system it leaves, the exception it raised ("" *)
(* if none) and the effects it had, in order.                              *)
(***************************************************************************)
Result(fs, e, ev) == [fs |-> fs, err |-> e, ev |-> ev]

Event(op, path) == [op |-> op, path |-> path]

\* some ancestor of the path, or the path, is a file
BlockedByFile(fs, path) == \E a \in Ancestors(path) : a \in DOMAIN fs.files

\* the directory and every missing ancestor, as the running user makes them
WithAncestors(d, path) ==
    [q \in DOMAIN d \cup Ancestors(path) |->
        IF q \in DOMAIN d THEN d[q] ELSE ProcessUser]

\* Variant: ownership is set only on a directory the call creates.
_directory_create_only(fs, path) ==
    LET p == Components(path) IN
    IF BlockedByFile(fs, p) THEN Result(fs, "Fail", <<>>)
    ELSE Result([fs EXCEPT !.dirs =
                    IF p \in DOMAIN fs.dirs THEN @
                    ELSE [WithAncestors(@, p) EXCEPT ![p] = Configured]],
                "", <<Event("directory", p)>>)

\* Directory(path, owner, group, recursive=True)
_directory(fs, path) ==
    LET p == Components(path) IN
    IF BlockedByFile(fs, p) THEN Result(fs, "Fail", <<>>)
    ELSE Result([fs EXCEPT !.dirs = [WithAncestors(fs.dirs, p) EXCEPT
                                        ![p] = Configured]],
                "", <<Event("directory", p)>>)

\* Variant: the rendering is appended to the file instead of replacing it.
_template_config_append(fs, base, template_tag) ==
    LET path == Components(Under(conf_dir, base))
        old == IF path \in DOMAIN fs.files THEN fs.files[path].content
               ELSE <<>>
    IN IF Parent(path) \notin DOMAIN fs.dirs \/ path \in DOMAIN fs.dirs
       THEN Result(fs, "Fail", <<>>)
       ELSE Result([fs EXCEPT !.files =
                       Put(@, path,
                           File(old \o Render(TemplateName(base, template_tag)),
                                Configured))],
                   "", <<Event("template", path)>>)

\* TemplateConfig(path, owner, group, template_tag)
_template_config(fs, base, template_tag) ==
    LET path == Components(Under(conf_dir, base)) IN
    IF Parent(path) \notin DOMAIN fs.dirs \/ path \in DOMAIN fs.dirs
    THEN Result(fs, "Fail", <<>>)
    ELSE Result([fs EXCEPT !.files =
                    Put(@, path, File(Render(TemplateName(base, template_tag)),
                                      Configured))],
                "", <<Event("template", path)>>)

\* how many of the values, from the first on, "%s\n" % value formats
RECURSIVE Formatted(_)
Formatted(values) ==
    IF values = <<>> \/ ~Formats(Head(values)) THEN 0
    ELSE 1 + Formatted(Tail(values))

\* fw.write("%s\n" % parameter) for each parameter
Written(parameters) ==
    Concat([i \in 1..Len(parameters) |-> Format(parameters[i]) \o <<"\n">>])

\* the file at a resolved path as open(.., 'a') or open(.., 'w') finds it,
\* created empty if it is not there
Opened(fs, to) ==
    IF to \in DOMAIN fs.files THEN fs.files[to]
    ELSE File(<<>>, ProcessUser)

\* open(s, 'a') or open(s, 'w') raises IOError: a name on the way is missing
\* or no directory, or s names a directory
CannotWrite(fs, s) ==
    LET r == Resolve(fs, s) IN
    r.err # "" \/ r.slash \/ r.path \in DOMAIN fs.dirs

\* open(s, 'r') raises IOError: as above, or there is no such file
CannotRead(fs, s) ==
    LET r == Resolve(fs, s) IN
    r.err # "" \/ r.slash \/ r.path \notin DOMAIN fs.files

\* "for parameter in parameters: fw.write(...)": what is written, and the
\* TypeError of a value that does not iterate or an item that does not
\* format
Writes(parameters) ==
    IF ~Iterable(parameters) THEN [text |-> <<>>, err |-> "TypeError"]
    ELSE LET all == Elements(parameters)
             n == Formatted(all)
         IN [text |-> Written(SubSeq(all, 1, n)),
             err |-> IF n < Len(all) THEN "TypeError" ELSE ""]

\* Variant: open(path, 'w'), which truncates.
_store_configuration_truncating(fs, parameters, path) ==
    LET to == Resolve(fs, path).path IN
    IF CannotWrite(fs, path) THEN Result(fs, "IOError", <<>>)
    ELSE Result([fs EXCEPT !.files =
                    Put(@, to, [Opened(fs, to) EXCEPT !.content =
                                   Writes(parameters).text])],
                Writes(parameters).err, <<Event("append", to)>>)

\* Variant: a line the file already holds is not written again.
_store_configuration_once(fs, parameters, path) ==
    LET to == Resolve(fs, path).path IN
    IF CannotWrite(fs, path) THEN Result(fs, "IOError", <<>>)
    ELSE LET old == Opened(fs, to).content
             line(x) == Format(x) \o <<"\n">>
             Held(x) == \E i \in 1..Len(old) :
                           /\ i + Len(line(x)) - 1 <= Len(old)
                           /\ SubSeq(old, i, i + Len(line(x)) - 1) = line(x)
             IsNew(x) == Formats(x) /\ ~Held(x)
             new == IF Iterable(parameters)
                    THEN SelectSeq(Elements(parameters), IsNew) ELSE <<>>
         IN Result([fs EXCEPT !.files =
                       Put(@, to, [Opened(fs, to) EXCEPT !.content =
                                      @ \o Written(new)])],
                   Writes(parameters).err, <<Event("append", to)>>)

\* with open(path, 'a') as fw: ...
_store_configuration(fs, parameters, path) ==
    LET to == Resolve(fs, path).path IN
    IF CannotWrite(fs, path) THEN Result(fs, "IOError", <<>>)
    ELSE Result([fs EXCEPT !.files =
                    Put(@, to, [Opened(fs, to) EXCEPT !.content =
                                   @ \o Writes(parameters).text])],
                Writes(parameters).err, <<Event("append", to)>>)

\* Variant: the file is opened before the text is decoded.
StoreJvmOpenFirst(fs, p, jvm_arg_list) ==
    IF p.jvm_args = Absent THEN Result(fs, "", <<>>)
    ELSE LET opened == _store_configuration(fs, List(<<>>),
                                            Under(conf_dir, <<"j", "v", "m", ".", "c", "o", "n", "f", "i", "g">>))
         IN IF opened.err # "" THEN opened
            ELSE IF jvm_arg_list.k = "error"
            THEN Result(opened.fs, "decode", opened.ev)
            ELSE _store_configuration(fs, jvm_arg_list,
                                      Under(conf_dir, <<"j", "v", "m", ".", "c", "o", "n", "f", "i", "g">>))

\* Variant: absent jvm_args are stored as an empty list.
StoreJvmNoGuard(fs, p, jvm_arg_list) ==
    IF p.jvm_args # Absent /\ jvm_arg_list.k = "error"
    THEN Result(fs, "decode", <<>>)
    ELSE _store_configuration(fs,
                              IF p.jvm_args = Absent THEN List(<<>>)
                              ELSE jvm_arg_list,
                              Under(conf_dir, <<"j", "v", "m", ".", "c", "o", "n", "f", "i", "g">>))

\* lines 40-42, jvm_arg_list being what literal_eval returns
StoreJvm(fs, p, jvm_arg_list) ==
    IF p.jvm_args = Absent THEN Result(fs, "", <<>>)
    ELSE IF jvm_arg_list.k = "error" THEN Result(fs, "decode", <<>>)
    ELSE _store_configuration(fs, jvm_arg_list, Under(conf_dir, <<"j", "v", "m", ".", "c", "o", "n", "f", "i", "g">>))

\* format("{params.catalog_dir}/{key}.properties")
CatalogFile(key) == Under(catalog_dir, ToStr(key) \o <<".", "p", "r", "o", "p", "e", "r", "t", "i", "e", "s">>)

\* line 47
StoreCatalog(fs, key, value) ==
    _store_configuration(fs, value, CatalogFile(key))

\* where shutil.copy2(src, dst) writes: into dst if it is a directory
CopyTarget(fs, src, dst) ==
    IF isdir(fs, dst) THEN join(dst, basename(src)) ELSE dst

\* shutil._samefile(src, dst): both exist and are one file
samefile(fs, src, dst) ==
    /\ exists(fs, src)
    /\ exists(fs, dst)
    /\ Resolve(fs, src).path = Resolve(fs, dst).path

\* Variant: an existing destination file is kept.
copy2_keep_existing(fs, src, dst) ==
    LET target == CopyTarget(fs, src, dst)
        to == Resolve(fs, target).path
    IN IF samefile(fs, src, target) THEN Result(fs, "Error", <<>>)
       ELSE IF CannotRead(fs, src) \/ CannotWrite(fs, target)
       THEN Result(fs, "IOError", <<>>)
       ELSE IF to \in DOMAIN fs.files THEN Result(fs, "", <<>>)
       ELSE Result([fs EXCEPT !.files =
                       Put(@, to, File(fs.files[Resolve(fs, src).path].content,
                                       ProcessUser))],
                   "", <<Event("copy", to)>>)

\* shutil.copyfile(src, dst): the same file is an Error; src is opened,
\* then dst for writing, and a file that is there keeps its owner
copyfile(fs, src, dst) ==
    IF samefile(fs, src, dst) THEN Result(fs, "Error", <<>>)
    ELSE IF CannotRead(fs, src) \/ CannotWrite(fs, dst)
    THEN Result(fs, "IOError", <<>>)
    ELSE Result([fs EXCEPT !.files =
                    Put(@, Resolve(fs, dst).path,
                        [Opened(fs, Resolve(fs, dst).path) EXCEPT !.content =
                            fs.files[Resolve(fs, src).path].content])],
                "", <<Event("copy", Resolve(fs, dst).path)>>)

\* shutil.copy2(src, dst)
copy2(fs, src, dst) == copyfile(fs, src, CopyTarget(fs, src, dst))

\* Variant: os.mkdir(plugin_dir), which needs the parent to exist.
MakePluginDirSingleLevel(fs, plugin_dir) == mkdir(fs, plugin_dir)

\* os.makedirs(plugin_dir)
MakePluginDir(fs, plugin_dir) == makedirs(fs, plugin_dir)

\* the result r of the statements so far, then the result c of the next
Then(r, c) == Result(c.fs, c.err, r.ev \o c.ev)

\* lines 55-56, from the i-th jar on; os.path.join takes strings only
RECURSIVE CopyJars(_, _, _, _)
CopyJars(r, jars, i, plugin_dir) ==
    IF i > Len(jars) \/ r.err # "" THEN r
    ELSE IF jars[i].k # "str"
    THEN Result(r.fs, "AttributeError", r.ev)
    ELSE CopyJars(Then(r, copy2(r.fs, join(source_plugin_dir, jars[i].s),
                                plugin_dir)),
                  jars, i + 1, plugin_dir)

\* line 54, m being what os.makedirs did: [fs, err]
Made(fs, plugin_dir, m) ==
    Result(m.fs, IF m.err = "" THEN "" ELSE "OSError",
           IF m.fs = fs THEN <<>>
           ELSE <<Event("makedirs",
                        IF m.err = "" THEN Resolve(m.fs, plugin_dir).path
                        ELSE Components(plugin_dir))>>)

\* lines 55-56, made being the result of lines 53-54
Jars(made, value, plugin_dir) ==
    IF made.err # "" THEN made
    ELSE IF ~Iterable(value) THEN Result(made.fs, "TypeError", made.ev)
    ELSE CopyJars(made, Elements(value), 1, plugin_dir)

\* lines 52-56
StagePlugin(fs, key, value) ==
    IF key.k # "str" THEN Result(fs, "AttributeError", <<>>)
    ELSE Jars(IF exists(fs, join(presto_plugin_dir, key.s))
              THEN Result(fs, "", <<>>)
              ELSE Made(fs, join(presto_plugin_dir, key.s),
                        MakePluginDir(fs, join(presto_plugin_dir, key.s))),
              value, join(presto_plugin_dir, key.s))

(***************************************************************************)
(* set_configuration, statement by statement.                              *)
(***************************************************************************)
\* Variant: jvm.config is written before the templates are rendered.
StepOrderJvmFirst ==
    <<"conf_dir", "catalog_dir", "pid_dir", "log_dir",
      "jvm_args", "config.properties", "node.properties",
      "catalog_properties", "addon_plugins">>

StepOrder ==
    <<"conf_dir", "catalog_dir", "pid_dir", "log_dir",
      "config.properties", "node.properties",
      "jvm_args", "catalog_properties", "addon_plugins">>

First == StepOrder[1]

\* the statement after `step`, "done" after the last
After(step) ==
    LET i == CHOOSE j \in 1..Len(StepOrder) : StepOrder[j] = step
    IN IF i = Len(StepOrder) THEN "done" ELSE StepOrder[i + 1]

DirectoryOf(step) ==
    CASE step = "conf_dir" -> conf_dir
      [] step = "catalog_dir" -> catalog_dir
      [] step = "pid_dir" -> pid_dir
      [] step = "log_dir" -> log_dir

FS == [dirs |-> dirs, files |-> files]

\* Variant: an exception restores the file system the call started from.
TakeWithRollback(r, next) ==
    /\ err = ""
    /\ dirs' = IF r.err # "" THEN pre.dirs ELSE r.fs.dirs
    /\ files' = IF r.err # "" THEN pre.files ELSE r.fs.files
    /\ log' = log \o r.ev
    /\ err' = r.err
    /\ pc' = IF r.err # "" THEN pc ELSE next
    /\ oks' = IF r.err = "" /\ next = "done" THEN oks + 1 ELSE oks
    /\ UNCHANGED <<params, pre, origin, hist>>

\* The statement's result r becomes the state.  An exception propagates out
\* of set_configuration: what the statement and those before it did stays.
Take(r, next) ==
    /\ err = ""
    /\ dirs' = r.fs.dirs
    /\ files' = r.fs.files
    /\ log' = log \o r.ev
    /\ err' = r.err
    /\ pc' = IF r.err # "" THEN pc ELSE next
    /\ oks' = IF r.err = "" /\ next = "done" THEN oks + 1 ELSE oks
    /\ UNCHANGED <<params, pre, origin, hist>>

Init ==
    /\ \E fs \in InitialFileSystems : dirs = fs.dirs /\ files = fs.files
    /\ pc = "idle"
    /\ params = P(Absent, Absent, Absent, None)
    /\ todo = <<>>
    /\ err = ""
    /\ log = <<>>
    /\ pre = [dirs |-> dirs, files |-> files]
    /\ origin = pre
    /\ hist = <<>>
    /\ oks = 0

\* the framework calls set_configuration(component) with params resolved
Invoke ==
    /\ pc \in {"idle", "done"} \/ err # ""
    /\ Len(hist) < MaxInvocations
    /\ \E p \in ParameterSets :
          /\ params' = p
          /\ hist' = Append(hist, p)
    /\ pc' = First
    /\ pre' = FS
    /\ log' = <<>>
    /\ err' = ""
    /\ todo' = <<>>
    /\ UNCHANGED <<dirs, files, origin, oks>>

\* lines 31-34
EnsureDirectory ==
    /\ pc \in {"conf_dir", "catalog_dir", "pid_dir", "log_dir"}
    /\ Take(_directory(FS, DirectoryOf(pc)), After(pc))
    /\ UNCHANGED todo

\* line 36
RenderConfig ==
    /\ pc = "config.properties"
    /\ Take(_template_config(FS, <<"c", "o", "n", "f", "i", "g", ".", "p", "r", "o", "p", "e", "r", "t", "i", "e", "s">>, params.component),
            After(pc))
    /\ UNCHANGED todo

\* line 37
RenderNode ==
    /\ pc = "node.properties"
    /\ Take(_template_config(FS, <<"n", "o", "d", "e", ".", "p", "r", "o", "p", "e", "r", "t", "i", "e", "s">>, None), After(pc))
    /\ UNCHANGED todo

\* lines 40-42
JvmArgs ==
    /\ pc = "jvm_args"
    /\ \E jvm_arg_list \in Decodings(params.jvm_args) :
          Take(StoreJvm(FS, params, jvm_arg_list), After(pc))
    /\ UNCHANGED todo

\* lines 44-46 and 49-51: the test, the decoding and the call of iteritems,
\* which only a dict has
DecodeDict(step, text) ==
    /\ todo = <<>>
    /\ \E d \in Decodings(text) :
          IF text = Absent
          THEN Take(Result(FS, "", <<>>), After(step)) /\ todo' = <<>>
          ELSE IF d.k = "error"
          THEN Take(Result(FS, "decode", <<>>), step) /\ todo' = <<>>
          ELSE IF d.k # "dict"
          THEN Take(Result(FS, "AttributeError", <<>>), step) /\ todo' = <<>>
          ELSE IF d.items = <<>>
          THEN Take(Result(FS, "", <<>>), After(step)) /\ todo' = <<>>
          ELSE Take(Result(FS, "", <<>>), step) /\ todo' = d.items

\* the statement after a pass of the loop
AfterPass == IF Len(todo) = 2 THEN After(pc) ELSE pc

CatalogProperties ==
    /\ pc = "catalog_properties"
    /\ DecodeDict(pc, params.catalog_properties)

\* lines 46-47: one pass of the loop
CatalogLoop ==
    /\ pc = "catalog_properties"
    /\ todo # <<>>
    /\ Take(StoreCatalog(FS, todo[1], todo[2]), AfterPass)
    /\ todo' = SubSeq(todo, 3, Len(todo))

AddonPlugins ==
    /\ pc = "addon_plugins"
    /\ DecodeDict(pc, params.addon_plugins)

\* lines 51-56: one pass of the loop
PluginLoop ==
    /\ pc = "addon_plugins"
    /\ todo # <<>>
    /\ Take(StagePlugin(FS, todo[1], todo[2]), AfterPass)
    /\ todo' = SubSeq(todo, 3, Len(todo))

Next ==
    \/ Invoke
    \/ EnsureDirectory
    \/ RenderConfig
    \/ RenderNode
    \/ JvmArgs
    \/ CatalogProperties
    \/ CatalogLoop
    \/ AddonPlugins
    \/ PluginLoop

Spec == Init /\ [][Next]_vars

(***************************************************************************)
(* Properties of set_configuration.                                        *)
(***************************************************************************)
Returned == pc = "done"

Raised == err # ""

jvm_config == Components(Under(conf_dir, <<"j", "v", "m", ".", "c", "o", "n", "f", "i", "g">>))
config_properties == Components(Under(conf_dir, <<"c", "o", "n", "f", "i", "g", ".", "p", "r", "o", "p", "e", "r", "t", "i", "e", "s">>))
node_properties == Components(Under(conf_dir, <<"n", "o", "d", "e", ".", "p", "r", "o", "p", "e", "r", "t", "i", "e", "s">>))

FourDirectories ==
    {Components(conf_dir), Components(catalog_dir), Components(pid_dir),
     Components(log_dir)}

CatalogRoot == Components(catalog_dir)
PluginRoot == Components(presto_plugin_dir)

\* the file a catalog's lines go to
CatalogPath(key) == Resolve(FS, CatalogFile(key)).path

\* a name of one segment
Plain(name) == name \notin {<<".">>, <<".", ".">>} /\ \A i \in 1..Len(name) : name[i] # "/"

ContentIn(fs, path) ==
    IF path \in DOMAIN fs.files THEN fs.files[path].content ELSE <<>>

KnownPaths ==
    DOMAIN files \cup DOMAIN pre.files \cup DOMAIN dirs \cup DOMAIN pre.dirs

\* the path is as the invocation found it: absent, or present and identical
Untouched(path) ==
    /\ path \in DOMAIN files <=> path \in DOMAIN pre.files
    /\ path \in DOMAIN files => files[path] = pre.files[path]
    /\ path \in DOMAIN dirs <=> path \in DOMAIN pre.dirs
    /\ path \in DOMAIN dirs => dirs[path] = pre.dirs[path]

IsPrefix(a, b) == Len(a) <= Len(b) /\ SubSeq(b, 1, Len(a)) = a

\* the lines a decoded value stands for: its elements, each as "%s" shows it
LinesOf(v) == [i \in 1..Len(Elements(v)) |-> Format(Elements(v)[i])]

\* each line followed by a newline
RECURSIVE WithNewlines(_)
WithNewlines(lines) ==
    IF lines = <<>> THEN <<>>
    ELSE Head(lines) \o <<"\n">> \o WithNewlines(Tail(lines))

\* the file holds what it held at the start, then each line of the decoded
\* value v and a newline (a dict in v being in any one order)
AppendedExactly(path, v) ==
    /\ path \in DOMAIN files
    /\ \E o \in Orderings(v) :
          ContentIn(FS, path) = ContentIn(pre, path) \o WithNewlines(LinesOf(o))

\* C1: after a successful set_configuration, jvm.config and every catalog's
\* <catalog>.properties hold their content from before the invocation
\* followed by exactly the target's decoded lines, each with a newline, in
\* decoded order, nothing dropped, sorted or truncated; a catalog's lines go
\* to the file named after it and no other file under catalog_dir changes.
C1_AppendsDecodedLines ==
    Returned =>
      /\ params.jvm_args # Absent =>
            AppendedExactly(jvm_config, literal_eval(params.jvm_args))
      /\ params.jvm_args = JvmValid =>
            ContentIn(FS, jvm_config) =
               ContentIn(pre, jvm_config)
                  \o <<"-", "X", "m", "x", "5", "1", "2", "m">> \o <<"\n">> \o <<"-", "X", "m", "s", "2", "5", "6", "m">> \o <<"\n">>
      /\ params.jvm_args = JvmMixed =>
            ContentIn(FS, jvm_config) =
               ContentIn(pre, jvm_config)
                  \o <<"-", "X", "m", "x", "1", "g">> \o <<"\n">> \o <<"1">> \o <<"\n">>
                  \o <<"1", ".", "5">> \o <<"\n">>
                  \o <<"9", "2", "2", "3", "3", "7", "2", "0", "3", "6", "8", "5", "4", "7", "7", "5", "8", "0", "8">> \o <<"\n">>
                  \o <<"[", "'", "a", "'", ",", " ", "2", "L", "]">> \o <<"\n">>
      /\ params.jvm_args = JvmString =>
            ContentIn(FS, jvm_config) =
               ContentIn(pre, jvm_config)
                  \o <<"-", "\n", "s", "\n", "e", "\n", "r", "\n", "v", "\n",
                       "e", "\n", "r", "\n">>
      /\ params.catalog_properties = CatalogRepeatedKey =>
            ContentIn(FS, CatalogPath(Str(<<"h", "i", "v", "e">>))) =
               ContentIn(pre, CatalogPath(Str(<<"h", "i", "v", "e">>)))
                  \o <<"c", "o", "n", "n", "e", "c", "t", "o", "r", ".", "n", "a", "m", "e", "=", "h", "i", "v", "e">> \o <<"\n">>
      /\ params.catalog_properties = CatalogOutside =>
            ContentIn(FS, <<<<"p", "r", "e", "s", "t", "o">>, <<"e", "t", "c">>, <<"e", "x", "t", "r", "a", ".", "p", "r", "o", "p", "e", "r", "t", "i", "e", "s">>>>) =
               ContentIn(pre, <<<<"p", "r", "e", "s", "t", "o">>, <<"e", "t", "c">>, <<"e", "x", "t", "r", "a", ".", "p", "r", "o", "p", "e", "r", "t", "i", "e", "s">>>>)
                  \o <<"a", "=", "b">> \o <<"\n">>
      /\ params.catalog_properties # Absent =>
            LET d == literal_eval(params.catalog_properties) IN
            /\ \A key \in Keys(d) :
                  /\ Plain(key.s) =>
                        CatalogPath(key) =
                           Append(CatalogRoot, key.s \o <<".", "p", "r", "o", "p", "e", "r", "t", "i", "e", "s">>)
                  /\ AppendedExactly(CatalogPath(key), Lookup(d, key))
            /\ \A path \in KnownPaths :
                  (IsUnder(path, CatalogRoot)
                     /\ path \notin {CatalogPath(key) : key \in Keys(d)})
                  => Untouched(path)

C1_Witness ==
    /\ Returned
    /\ params.jvm_args = JvmValid
    /\ params.catalog_properties = CatalogValid
    /\ ContentIn(pre, jvm_config) # <<>>
    /\ ContentIn(pre, CatalogPath(Str(<<"h", "i", "v", "e">>))) # <<>>
    /\ CatalogPath(Str(<<"t", "p", "c", "h">>)) \notin DOMAIN pre.files

RECURSIVE Repeat(_, _)
Repeat(seq, n) == IF n = 0 THEN <<>> ELSE seq \o Repeat(seq, n - 1)

\* every invocation so far had the current parameter set and returned
SameEveryTime ==
    /\ Returned
    /\ oks = Len(hist)
    /\ \A i \in 1..Len(hist) : hist[i] = params

\* C2: k successful invocations with the same parameters leave, in
\* jvm.config and in every catalog file, what the file held before the first
\* one followed by k consecutive copies of the target's lines (two copies
\* after two invocations): repeating the invocation changes the files again.
C2_InvocationsAccumulate ==
    SameEveryTime =>
      /\ params.jvm_args # Absent =>
            ContentIn(FS, jvm_config) =
               ContentIn(origin, jvm_config)
                  \o Repeat(WithNewlines(LinesOf(literal_eval(params.jvm_args))),
                            Len(hist))
      /\ params.catalog_properties # Absent =>
            LET d == literal_eval(params.catalog_properties) IN
            \A key \in Keys(d) :
               /\ ContentIn(FS, CatalogPath(key)) =
                     ContentIn(origin, CatalogPath(key))
                        \o Repeat(WithNewlines(LinesOf(Lookup(d, key))),
                                  Len(hist))
               /\ Len(hist) > 1 =>
                     ContentIn(FS, CatalogPath(key)) #
                        ContentIn(origin, CatalogPath(key))
                           \o WithNewlines(LinesOf(Lookup(d, key)))
      /\ (params.jvm_args = JvmMixed /\ Len(hist) = 2) =>
            ContentIn(FS, jvm_config) =
               ContentIn(origin, jvm_config)
                  \o <<"-", "X", "m", "x", "1", "g">> \o <<"\n">> \o <<"1">> \o <<"\n">>
                  \o <<"1", ".", "5">> \o <<"\n">>
                  \o <<"9", "2", "2", "3", "3", "7", "2", "0", "3", "6", "8", "5", "4", "7", "7", "5", "8", "0", "8">> \o <<"\n">>
                  \o <<"[", "'", "a", "'", ",", " ", "2", "L", "]">> \o <<"\n">>
                  \o <<"-", "X", "m", "x", "1", "g">> \o <<"\n">> \o <<"1">> \o <<"\n">>
                  \o <<"1", ".", "5">> \o <<"\n">>
                  \o <<"9", "2", "2", "3", "3", "7", "2", "0", "3", "6", "8", "5", "4", "7", "7", "5", "8", "0", "8">> \o <<"\n">>
                  \o <<"[", "'", "a", "'", ",", " ", "2", "L", "]">> \o <<"\n">>
      /\ (params.catalog_properties = CatalogValid /\ Len(hist) = 2
            /\ CatalogPath(Str(<<"t", "p", "c", "h">>)) \notin DOMAIN origin.files) =>
            ContentIn(FS, CatalogPath(Str(<<"t", "p", "c", "h">>))) =
               <<"c", "o", "n", "n", "e", "c", "t", "o", "r", ".", "n", "a", "m", "e", "=", "t", "p", "c", "h">> \o <<"\n">>
                  \o <<"c", "o", "n", "n", "e", "c", "t", "o", "r", ".", "n", "a", "m", "e", "=", "t", "p", "c", "h">> \o <<"\n">>

C2_Witness ==
    /\ SameEveryTime
    /\ Len(hist) = 2
    /\ params.jvm_args = JvmValid
    /\ params.catalog_properties = CatalogValid
    /\ jvm_config \notin DOMAIN origin.files
    /\ ContentIn(FS, jvm_config) =
          <<"-", "X", "m", "x", "5", "1", "2", "m">> \o <<"\n">> \o <<"-", "X", "m", "s", "2", "5", "6", "m">> \o <<"\n">>
             \o <<"-", "X", "m", "x", "5", "1", "2", "m">> \o <<"\n">> \o <<"-", "X", "m", "s", "2", "5", "6", "m">> \o <<"\n">>

\* the files of the catalogs of this invocation
CatalogTargets ==
    IF params.catalog_properties # Absent
          /\ literal_eval(params.catalog_properties).k = "dict"
    THEN {CatalogPath(key) :
            key \in Keys(literal_eval(params.catalog_properties))}
    ELSE {}

\* the paths a step writes
TargetOf(step, path) ==
    CASE step = "jvm_args" -> path = jvm_config
      [] step = "catalog_properties" ->
            IsUnder(path, CatalogRoot) \/ path \in CatalogTargets
      [] step = "addon_plugins" ->
            path = PluginRoot \/ IsUnder(path, PluginRoot)

OptionalSteps == <<"jvm_args", "catalog_properties", "addon_plugins">>

StepOfEvent(e) ==
    CASE e.op = "directory" -> "directories"
      [] e.op = "template" -> "templates"
      [] e.op = "append" /\ e.path = jvm_config -> "jvm_args"
      [] e.op = "append" /\ e.path # jvm_config -> "catalog_properties"
      [] e.op \in {"makedirs", "copy"} -> "addon_plugins"

\* C3: when the decoding of an optional field fails, the invocation ends
\* there: nothing that its step or a later step writes has been created,
\* appended to or copied in this invocation.  A text of blanks only is
\* such a failure (it is no expression), and so is a literal followed by a
\* newline and a last line of blanks (an unexpected indent): the invocation
\* never gets past jvm_args with either.
C3_DecodeFailureWritesNothingLater ==
    /\ err = "decode" =>
          \E n \in 1..Len(OptionalSteps) :
             /\ pc = OptionalSteps[n]
             /\ \A m \in n..Len(OptionalSteps) :
                   /\ \A path \in KnownPaths :
                         TargetOf(OptionalSteps[m], path) => Untouched(path)
                   /\ \A i \in 1..Len(log) :
                         StepOfEvent(log[i]) # OptionalSteps[m]
    /\ params.jvm_args \in {JvmBlank, JvmLastLineBlank} =>
          /\ pc \notin {"catalog_properties", "addon_plugins", "done"}
          /\ Untouched(jvm_config)
          /\ Raised => pc = "jvm_args" /\ err = "decode"

C3_Witness ==
    /\ err = "decode"
    /\ pc = "jvm_args"
    /\ jvm_config \notin DOMAIN files
    /\ params.catalog_properties = CatalogValid
    /\ config_properties \in DOMAIN files

\* C4: with jvm_args and catalog_properties both absent, a successful
\* set_configuration neither creates nor changes jvm.config or anything
\* under catalog_dir, and config.properties and node.properties are rendered
\* in the invocation and exist afterwards.  Absent is the empty text, the
\* one text the tests of lines 40 and 44 skip: with a text of blanks the
\* invocation does not return.
C4_AbsentFieldsAreSkipped ==
    /\ (Returned /\ params.jvm_args = Absent
          /\ params.catalog_properties = Absent)
       => /\ Untouched(jvm_config)
          /\ \A path \in KnownPaths :
                IsUnder(path, CatalogRoot) => Untouched(path)
          /\ \A i \in 1..Len(log) : log[i].op # "append"
          /\ \A f \in {config_properties, node_properties} :
                /\ f \in DOMAIN files
                /\ \E i \in 1..Len(log) : log[i] = Event("template", f)
    /\ (params.jvm_args # Absent /\ Len(params.jvm_args) = 1
          /\ params.jvm_args[1].t = "space")
       => ~Returned

C4_Witness ==
    /\ Returned
    /\ params.jvm_args = Absent
    /\ params.catalog_properties = Absent
    /\ jvm_config \notin DOMAIN files
    /\ config_properties \in DOMAIN files
    /\ node_properties \in DOMAIN files

\* C5: after a successful set_configuration conf_dir, catalog_dir, pid_dir
\* and log_dir exist and belong to the configured user and group, whether
\* or not they existed before and whatever the component.
C5_DirectoriesExistAndOwned ==
    Returned =>
      \A d \in FourDirectories : d \in DOMAIN dirs /\ dirs[d] = Configured

C5_Witness ==
    /\ Returned
    /\ Components(conf_dir) \in DOMAIN pre.dirs
    /\ pre.dirs[Components(conf_dir)] # Configured
    /\ Components(pid_dir) \notin DOMAIN pre.dirs
    /\ params.component = <<"W", "O", "R", "K", "E", "R">>

\* C6: after a successful set_configuration, for every plugin of
\* addon_plugins and every artifact listed for it, the file
\* plugin_root/<plugin>/<artifact> exists and has the content of
\* source_plugin_dir/<artifact>, whatever file of that name was there before.
C6_ArtifactsCopied ==
    (Returned /\ params.addon_plugins # Absent) =>
      LET d == literal_eval(params.addon_plugins) IN
      /\ \A key \in Keys(d) :
            \A i \in 1..Len(Lookup(d, key).items) :
               LET jar == Lookup(d, key).items[i].s
                   to == Resolve(FS, join(join(presto_plugin_dir, key.s),
                                          jar)).path
                   from == Resolve(FS, join(source_plugin_dir, jar)).path
               IN /\ to \in DOMAIN files
                  /\ from \in DOMAIN files
                  /\ files[to].content = files[from].content
      /\ params.addon_plugins = PluginsValid =>
            /\ ContentIn(FS, <<<<"p", "r", "e", "s", "t", "o">>, <<"p", "l", "u", "g", "i", "n">>, <<"m", "y", "p", "l", "u", "g", "i", "n">>, <<"a", ".", "j", "a", "r">>>>)
                  = <<"bytes of a">>
            /\ ContentIn(FS, <<<<"p", "r", "e", "s", "t", "o">>, <<"p", "l", "u", "g", "i", "n">>, <<"m", "y", "p", "l", "u", "g", "i", "n">>, <<"b", ".", "j", "a", "r">>>>)
                  = <<"bytes of b">>

C6_Witness ==
    /\ Returned
    /\ params.addon_plugins = PluginsValid
    /\ ContentIn(pre, <<<<"p", "r", "e", "s", "t", "o">>, <<"p", "l", "u", "g", "i", "n">>, <<"m", "y", "p", "l", "u", "g", "i", "n">>, <<"a", ".", "j", "a", "r">>>>)
          = <<"stale jar">>
    /\ <<<<"p", "r", "e", "s", "t", "o">>, <<"p", "l", "u", "g", "i", "n">>, <<"m", "y", "p", "l", "u", "g", "i", "n">>, <<"b", ".", "j", "a", "r">>>> \notin DOMAIN pre.files

\* C7: after a successful set_configuration, config.properties is the
\* rendering of the template tagged with the invocation's component and
\* node.properties the rendering of the untagged template; each holds the
\* rendering of this invocation alone, whatever it held before.
C7_TemplatesOverwritten ==
    Returned =>
      /\ ContentIn(FS, config_properties) =
            Render(TemplateName(<<"c", "o", "n", "f", "i", "g", ".", "p", "r", "o", "p", "e", "r", "t", "i", "e", "s">>, params.component))
      /\ ContentIn(FS, node_properties) =
            <<"rendering of ">> \o <<"n", "o", "d", "e", ".", "p", "r", "o", "p", "e", "r", "t", "i", "e", "s", ".", "j", "2">>
      /\ params.component = <<"W", "O", "R", "K", "E", "R">> =>
            ContentIn(FS, config_properties) =
               <<"rendering of ">> \o <<"c", "o", "n", "f", "i", "g", ".", "p", "r", "o", "p", "e", "r", "t", "i", "e", "s", "-", "W", "O", "R", "K", "E", "R", ".", "j", "2">>
      /\ params.component = None =>
            ContentIn(FS, config_properties) =
               <<"rendering of ">> \o <<"c", "o", "n", "f", "i", "g", ".", "p", "r", "o", "p", "e", "r", "t", "i", "e", "s", ".", "j", "2">>

C7_Witness ==
    /\ Returned
    /\ Len(hist) = 2
    /\ hist[1].component = <<"C", "O", "O", "R", "D", "I", "N", "A", "T", "O", "R">>
    /\ params.component = <<"W", "O", "R", "K", "E", "R">>
    /\ ContentIn(pre, config_properties) =
          <<"rendering of ">> \o <<"c", "o", "n", "f", "i", "g", ".", "p", "r", "o", "p", "e", "r", "t", "i", "e", "s", "-", "C", "O", "O", "R", "D", "I", "N", "A", "T", "O", "R", ".", "j", "2">>

Phase(e) ==
    CASE e.op = "directory" -> 1
      [] e.op = "template" -> 2
      [] e.op = "append" /\ e.path = jvm_config -> 3
      [] e.op = "append" /\ e.path # jvm_config -> 4
      [] e.op \in {"makedirs", "copy"} -> 5

\* C8: the effects of one invocation occur in a fixed order: the four
\* directories are ensured before any file is written, both templates are
\* rendered before any append, jvm.config is appended before any catalog
\* file, and every catalog file before any plugin directory or artifact.
C8_EffectsInOrder ==
    /\ \A i, j \in 1..Len(log) : i < j => Phase(log[i]) <= Phase(log[j])
    /\ \A j \in 1..Len(log) :
          Phase(log[j]) > 1 =>
             \A d \in FourDirectories :
                \E i \in 1..(j - 1) : log[i] = Event("directory", d)
    /\ \A j \in 1..Len(log) :
          Phase(log[j]) > 2 =>
             \A f \in {config_properties, node_properties} :
                \E i \in 1..(j - 1) : log[i] = Event("template", f)

C8_Witness ==
    /\ Returned
    /\ \A n \in 1..5 : \E i \in 1..Len(log) : Phase(log[i]) = n

\* the plugins whose pass of the loop has run
Staged ==
    IF params.addon_plugins = Absent
          \/ literal_eval(params.addon_plugins).k # "dict"
    THEN {}
    ELSE IF Returned THEN Keys(literal_eval(params.addon_plugins))
    ELSE IF pc = "addon_plugins" /\ (todo # <<>> \/ err = "IOError")
    THEN Keys(literal_eval(params.addon_plugins))
            \ {todo[2 * i - 1] : i \in 1..(Len(todo) \div 2)}
    ELSE {}

PluginDirectory(key) == Resolve(FS, join(presto_plugin_dir, key.s)).path

\* C9 as stated: only plugin_root/<plugin> itself is created, so an absent
\* plugin root is never created by the invocation.
C9_SingleLevelCreation ==
    PluginRoot \in DOMAIN dirs => PluginRoot \in DOMAIN pre.dirs

\* C9, amended: a plugin's destination directory is created if absent by an
\* existence check followed by os.makedirs, so after the plugin's pass the
\* directory and all its ancestors exist (an absent plugin root included),
\* and the invocation creates no directory other than these and the four
\* directories with their ancestors.
C9_CreatedWithAncestors ==
    /\ \A key \in Staged :
          Ancestors(PluginDirectory(key)) \subseteq DOMAIN dirs
    /\ \A d \in DOMAIN dirs \ DOMAIN pre.dirs :
          \/ \E f \in FourDirectories : d \in Ancestors(f)
          \/ /\ pc \in {"addon_plugins", "done"}
             /\ \E key \in Staged : d \in Ancestors(PluginDirectory(key))

C9_Witness ==
    /\ Str(<<"m", "y", "p", "l", "u", "g", "i", "n">>) \in Staged
    /\ PluginRoot \notin DOMAIN pre.dirs
    /\ PluginRoot \in DOMAIN dirs
    /\ PluginDirectory(Str(<<"m", "y", "p", "l", "u", "g", "i", "n">>)) \in DOMAIN dirs

AppendOnly(path) == path = jvm_config \/ IsUnder(path, CatalogRoot)

\* C10: no step of any invocation, one that raises included, removes a
\* directory or a file, and an append-only file (jvm.config, the catalog
\* files) only grows at its end; so what the completed steps of an aborted
\* invocation did is still there.
C10_NothingRolledBack ==
    [][ /\ DOMAIN dirs \subseteq DOMAIN dirs'
        /\ DOMAIN files \subseteq DOMAIN files'
        /\ \A path \in DOMAIN files :
              AppendOnly(path) =>
                 IsPrefix(files[path].content, files'[path].content)
        /\ Raised' =>
              /\ DOMAIN pre.dirs \subseteq DOMAIN dirs'
              /\ \A i \in 1..Len(log') :
                    log'[i].op \in {"template", "append", "copy"}
                       => log'[i].path \in DOMAIN files' ]_vars

C10_Witness ==
    /\ Raised
    /\ pc = "catalog_properties"
    /\ Components(conf_dir) \notin DOMAIN pre.dirs
    /\ Components(conf_dir) \in DOMAIN dirs
    /\ Len(ContentIn(FS, jvm_config)) > Len(ContentIn(pre, jvm_config))
=============================================================================
